---- MODULE Spec2Model ----
(***************************************************************************)
(* Model of fiftyone/operators/executor.py: the operator execution        *)
(* coordinator (execute_operator, execute_or_delegate_operator,           *)
(* prepare_operator_executor), the ExecutionContext / Executor trigger    *)
(* mechanism, the resolve_type / resolve_placement helpers and the        *)
(* recursive ValidationContext.                                           *)
(***************************************************************************)
EXTENDS Integers, Sequences, FiniteSets, TLC

(***************************************************************************)
(* Bounds of the model.                                                    *)
(***************************************************************************)
MaxTriggers == 2
MaxSecretKeys == 2

(***************************************************************************)
(* Python values.  Numbers carry twice their value so that 1, 1.0 and     *)
(* True can be told apart by type and still compare equal as numbers.     *)
(***************************************************************************)
PyNone == [t |-> "NoneType"]
PyStr(s) == [t |-> "str", s |-> s]
PyInt(n) == [t |-> "int", twice |-> 2 * n]
PyFloat(h) == [t |-> "float", twice |-> h]
PyBool(b) == [t |-> "bool", twice |-> IF b THEN 2 ELSE 0]
PyList(items) == [t |-> "list", items |-> items]
PyDict(keys, vals) == [t |-> "dict", keys |-> keys, vals |-> vals]
EmptyDict == PyDict(<< >>, << >>)

\* dict.get(name, None)
DictGet(d, name) ==
    IF \E i \in 1..Len(d.keys) : d.keys[i] = name
    THEN d.vals[CHOOSE i \in 1..Len(d.keys) : d.keys[i] = name]
    ELSE PyNone

\* Python ==
PyEq(a, b) ==
    LET num == {"int", "float", "bool"}
    IN  IF a.t \in num /\ b.t \in num THEN a.twice = b.twice ELSE a = b

\* x or {}
OrEmptyDict(x) ==
    IF x = PyNone \/ x = EmptyDict THEN EmptyDict ELSE x

(***************************************************************************)
(* fiftyone.operators.types: schema nodes as used by the validator.       *)
(***************************************************************************)
String == [cls |-> "String"]
Number == [cls |-> "Number"]
Boolean == [cls |-> "Boolean"]
Enum(values) == [cls |-> "Enum", values |-> values]
Object(names, props) == [cls |-> "Object", names |-> names, props |-> props]
List(element_type) == [cls |-> "List", element_type |-> element_type]

Property(type, required, invalid, error_message) ==
    [type |-> type, required |-> required, invalid |-> invalid,
     error_message |-> error_message]
\* types.Property(element_type): every option at its default
DefaultProperty(type) == Property(type, FALSE, FALSE, "")
NoProperty == [type |-> [cls |-> "None"]]

(***************************************************************************)
(* ValidationError and ValidationContext.                                  *)
(***************************************************************************)
ValidationError(reason, property, path, custom) ==
    [reason |-> reason, error_message |-> property.error_message,
     path |-> path, custom |-> custom]
NoError == [none |-> TRUE]

\* Outcome of one validate_* call: the errors list of the context after the
\* call, the error it returns (or NoError), and the exception it raises.
VResult(errors, ret, exc) == [errors |-> errors, ret |-> ret, exc |-> exc]

add_error_keep_all(errors, error, disable_schema_validation) ==
    Append(errors, error)
add_error(errors, error, disable_schema_validation) ==
    IF disable_schema_validation /\ error.custom # TRUE
    THEN errors
    ELSE Append(errors, error)

validate_enum(errors, path, property, value) ==
    IF \E i \in 1..Len(property.type.values) :
           PyEq(value, property.type.values[i])
    THEN VResult(errors, NoError, "")
    ELSE VResult(errors,
                 ValidationError("Invalid enum value", property, path, FALSE),
                 "")

validate_primitive_int_only(errors, path, property, value) ==
    LET type_name == property.type.cls
        value_type == value.t
    IN  IF type_name = "String" /\ value_type # "str"
        THEN VResult(errors,
                 ValidationError("Invalid value type", property, path, FALSE),
                 "")
        ELSE IF type_name = "Number" /\ value_type # "int"
        THEN VResult(errors,
                 ValidationError("Invalid value type", property, path, FALSE),
                 "")
        ELSE IF type_name = "Boolean" /\ value_type # "bool"
        THEN VResult(errors,
                 ValidationError("Invalid value type", property, path, FALSE),
                 "")
        ELSE VResult(errors, NoError, "")
validate_primitive(errors, path, property, value) ==
    LET type_name == property.type.cls
        value_type == value.t
    IN  IF type_name = "String" /\ value_type # "str"
        THEN VResult(errors,
                 ValidationError("Invalid value type", property, path, FALSE),
                 "")
        ELSE IF type_name = "Number"
                /\ (value_type # "int" /\ value_type # "float")
        THEN VResult(errors,
                 ValidationError("Invalid value type", property, path, FALSE),
                 "")
        ELSE IF type_name = "Boolean" /\ value_type # "bool"
        THEN VResult(errors,
                 ValidationError("Invalid value type", property, path, FALSE),
                 "")
        ELSE VResult(errors, NoError, "")

RECURSIVE validate_property(_, _, _, _, _)
RECURSIVE validate_object_items(_, _, _, _, _, _)
RECURSIVE validate_list_items(_, _, _, _, _, _)

\* the loop of validate_object from the i-th declared child on
validate_object_items_first_only(errors, path, propertyType, value, dsv, i) ==
    IF i > Len(propertyType.names)
    THEN VResult(errors, NoError, "")
    ELSE LET name == propertyType.names[i]
             r == validate_property(errors, path \o "." \o name,
                                    propertyType.props[i],
                                    DictGet(value, name), dsv)
         IN  IF r.exc # ""
             THEN r
             ELSE IF r.ret # NoError
             THEN VResult(add_error(r.errors, r.ret, dsv), NoError, "")
             ELSE validate_object_items(r.errors, path, propertyType, value,
                                        dsv, i + 1)
validate_object_items(errors, path, propertyType, value, dsv, i) ==
    IF i > Len(propertyType.names)
    THEN VResult(errors, NoError, "")
    ELSE LET name == propertyType.names[i]
             r == validate_property(errors, path \o "." \o name,
                                    propertyType.props[i],
                                    DictGet(value, name), dsv)
             errs == IF r.ret # NoError
                     THEN add_error(r.errors, r.ret, dsv)
                     ELSE r.errors
         IN  IF r.exc # ""
             THEN r
             ELSE validate_object_items(errs, path, propertyType, value,
                                        dsv, i + 1)

validate_object(errors, path, property, value, dsv) ==
    IF value = PyNone
    THEN VResult(errors,
                 ValidationError("Invalid object", property, path, FALSE), "")
    ELSE IF Len(property.type.names) = 0
    THEN VResult(errors, NoError, "")
    ELSE IF value.t # "dict"
    THEN \* value.get does not exist on str, int, float, bool, list
         VResult(errors, NoError, "AttributeError")
    ELSE validate_object_items(errors, path, property.type, value, dsv, 1)

\* the loop of validate_list from the i-th element on
validate_list_items(errors, path, element_type, value, dsv, i) ==
    IF i > Len(value.items)
    THEN VResult(errors, NoError, "")
    ELSE LET item_path == path \o "[" \o ToString(i - 1) \o "]"
             r == validate_property(errors, item_path,
                                    DefaultProperty(element_type),
                                    value.items[i], dsv)
             errs == IF r.ret # NoError
                     THEN add_error(r.errors, r.ret, dsv)
                     ELSE r.errors
         IN  IF r.exc # ""
             THEN r
             ELSE validate_list_items(errs, path, element_type, value,
                                      dsv, i + 1)

validate_list(errors, path, property, value, dsv) ==
    IF value.t # "list"
    THEN VResult(errors,
                 ValidationError("Invalid list", property, path, FALSE), "")
    ELSE validate_list_items(errors, path, property.type.element_type,
                             value, dsv, 1)

validate_property_no_required(errors, path, property, value, dsv) ==
    IF property.invalid
    THEN VResult(errors,
                 ValidationError(property.error_message, property, path,
                                 TRUE), "")
    ELSE IF value # PyNone
    THEN IF property.type.cls = "Enum"
         THEN validate_enum(errors, path, property, value)
         ELSE IF property.type.cls = "Object"
         THEN validate_object(errors, path, property, value, dsv)
         ELSE IF property.type.cls = "List"
         THEN validate_list(errors, path, property, value, dsv)
         ELSE validate_primitive(errors, path, property, value)
    ELSE VResult(errors, NoError, "")
validate_property(errors, path, property, value, dsv) ==
    IF property.invalid
    THEN VResult(errors,
                 ValidationError(property.error_message, property, path,
                                 TRUE), "")
    ELSE IF property.required /\ value = PyNone
    THEN VResult(errors,
                 ValidationError("Required property", property, path, FALSE),
                 "")
    ELSE IF value # PyNone
    THEN IF property.type.cls = "Enum"
         THEN validate_enum(errors, path, property, value)
         ELSE IF property.type.cls = "Object"
         THEN validate_object(errors, path, property, value, dsv)
         ELSE IF property.type.cls = "List"
         THEN validate_list(errors, path, property, value, dsv)
         ELSE validate_primitive(errors, path, property, value)
    ELSE VResult(errors, NoError, "")

\* ValidationContext._validate
Validate(inputs_property, params, dsv) ==
    LET r == validate_property(<< >>, "", inputs_property, params, dsv)
    IN  IF r.exc # ""
        THEN r
        ELSE IF r.ret # NoError
        THEN VResult(add_error(r.errors, r.ret, dsv), NoError, "")
        ELSE r

\* ValidationContext.__init__: the context, or the exception it raises
NewValidationContext(inputs_property, params, dsv) ==
    IF inputs_property = NoProperty
    THEN [invalid |-> FALSE, errors |-> << >>, exc |-> "",
          disable_schema_validation |-> dsv]
    ELSE LET r == Validate(inputs_property, params, dsv)
         IN  [invalid |-> Len(r.errors) > 0, errors |-> r.errors,
              exc |-> r.exc, disable_schema_validation |-> dsv]

(***************************************************************************)
(* InvocationRequest, GeneratedMessage, Executor, ExecutionContext,       *)
(* ExecutionResult.                                                        *)
(***************************************************************************)
\* dict.get(name, default)
DictGetDefault(d, name, default) ==
    IF \E i \in 1..Len(d.keys) : d.keys[i] = name
    THEN DictGet(d, name)
    ELSE default

InvocationRequest(operator_uri, params) ==
    [operator_uri |-> operator_uri, params |-> OrEmptyDict(params)]

GeneratedMessage(type, body) ==
    [type |-> type, cls |-> "InvocationRequest", body |-> body]

\* Executor(): requests=None, logs=None
NewExecutor == [requests |-> << >>, logs |-> << >>]

\* Executor.trigger: the executor after the call and the returned message
Executor_trigger_prepend(self, operator_name, params) ==
    LET inv_req == InvocationRequest(operator_name, params)
    IN  [self |-> [self EXCEPT !.requests = <<inv_req>> \o @],
         ret |-> GeneratedMessage("SUCCESS", inv_req)]
Executor_trigger(self, operator_name, params) ==
    LET inv_req == InvocationRequest(operator_name, params)
    IN  [self |-> [self EXCEPT !.requests = Append(@, inv_req)],
         ret |-> GeneratedMessage("SUCCESS", inv_req)]

\* Executor.log
Executor_log(self, message) == [self EXCEPT !.logs = Append(@, message)]

\* ExecutionContext.trigger: the executor after the call, the returned
\* message and the exception raised
Context_trigger_silent(exec, operator_name, params) ==
    IF exec = PyNone
    THEN [self |-> exec, ret |-> PyNone, exc |-> ""]
    ELSE LET r == Executor_trigger(exec, operator_name, params)
         IN  [self |-> r.self, ret |-> r.ret, exc |-> ""]
Context_trigger(exec, operator_name, params) ==
    IF exec = PyNone
    THEN [self |-> exec, ret |-> PyNone,
          exc |-> "ValueError: No executor available"]
    ELSE LET r == Executor_trigger(exec, operator_name, params)
         IN  [self |-> r.self, ret |-> r.ret, exc |-> ""]

\* ExecutionContext.log
Context_log_to_logs(exec, message) ==
    IF exec = PyNone
    THEN [self |-> exec, ret |-> PyNone,
          exc |-> "ValueError: No executor available"]
    ELSE [self |-> Executor_log(exec, message), ret |-> PyNone, exc |-> ""]
Context_log(exec, message) ==
    LET r == Context_trigger(exec, "console_log",
                             PyDict(<<"message">>, <<message>>))
    IN  [self |-> r.self, ret |-> PyNone, exc |-> r.exc]

\* ExecutionContext.__init__: params of the context
ContextParams(request_params) ==
    DictGetDefault(OrEmptyDict(request_params), "params", EmptyDict)

\* ExecutionContext.serialize
serialize(request_params) ==
    PyDict(<<"request_params", "params">>,
           <<OrEmptyDict(request_params), ContextParams(request_params)>>)

ExecutionResult(result, exec, error, vctx, delegated) ==
    [result |-> result, executor |-> exec, error |-> error,
     validation_ctx |-> vctx, delegated |-> delegated]

\* traceback.format_exc()
format_exc(exc) == PyStr("Traceback (most recent call last): " \o exc)

\* str.lstrip(".")
RECURSIVE lstrip_dot(_)
lstrip_dot_keep(s) == s
lstrip_dot(s) ==
    IF Len(s) > 0 /\ SubSeq(s, 1, 1) = "."
    THEN lstrip_dot(SubSeq(s, 2, Len(s)))
    ELSE s

\* ExecutionResult.to_exception: the message of the ExecutionError
to_exception_last_error(self) ==
    IF self.validation_ctx.invalid
    THEN LET val_error ==
                 self.validation_ctx.errors[Len(self.validation_ctx.errors)]
             path == lstrip_dot(val_error.path)
             reason == val_error.reason
         IN  self.error.s \o ". Path: " \o path \o ". Reason: " \o reason
    ELSE self.error.s
to_exception(self) ==
    IF self.validation_ctx.invalid
    THEN LET val_error == self.validation_ctx.errors[1]
             path == lstrip_dot(val_error.path)
             reason == val_error.reason
         IN  self.error.s \o ". Path: " \o path \o ". Reason: " \o reason
    ELSE self.error.s

(***************************************************************************)
(* Inputs of the model: request params, operator schemas, secret keys.    *)
(***************************************************************************)
Ada == PyDict(<<"name">>, <<PyStr("Ada")>>)
BadSiblings == PyDict(<<"name", "age">>, <<PyInt(1), PyStr("x")>>)
ParamCases == {PyNone, EmptyDict, Ada, BadSiblings, PyStr("text")}

\* request_params as built by execute_operator
RequestParams(params) ==
    PyDict(<<"operator_uri", "dataset_name", "view", "selected",
             "selected_labels", "params">>,
           <<PyStr("ns/say_hello"), PyStr("quickstart"), PyList(<< >>),
             PyNone, PyNone, params>>)
\* request params of a direct call, which may lack the "params" key
RequestCases ==
    {RequestParams(p) : p \in ParamCases}
        \cup {PyDict(<<"operator_uri">>, <<PyStr("ns/say_hello")>>)}

SayHello ==
    Property(Object(<<"name">>, <<Property(String, TRUE, FALSE, "")>>),
             FALSE, FALSE, "")
TwoRequired ==
    Property(Object(<<"name", "age">>,
                    <<Property(String, TRUE, FALSE, ""),
                      Property(Number, TRUE, FALSE, "")>>),
             FALSE, FALSE, "")
Broken == Property(Object(<< >>, << >>), FALSE, TRUE, "Bad schema")
SchemaCases == {NoProperty, SayHello, TwoRequired, Broken}

SecretKeyCases ==
    {PyNone} \cup {PyList([i \in 1..n |-> "K" \o ToString(i)]) :
                      n \in 0..MaxSecretKeys}
TriggerNames == {"reload", "notify"}
TriggerParams == {PyNone, PyDict(<<"n">>, <<PyInt(1)>>)}
RawResults == {PyNone, PyDict(<<"greeting">>, <<PyStr("Hello, Ada")>>)}

(***************************************************************************)
(* State.                                                                  *)
(***************************************************************************)
VARIABLES
    entry,            \* the top-level function that was called
    pc,               \* position of the call in the code
    request_params,   \* request_params of the call
    executor,         \* the Executor of the context, PyNone without one
    keys,             \* operator._plugin_secrets
    secretIdx,        \* index of the next key of resolve_secret_values
    secrets,          \* ctx._secrets, as a set of <<key, value>>
    inputs_property,  \* operator.resolve_input(ctx)
    validation_ctx,   \* the ValidationContext of prepare_operator_executor
    execPlan,         \* how the operator's execute body ends
    executeCalls,     \* number of calls of operator.execute
    queueCalls,       \* number of calls of queue_operation
    created,          \* every ExecutionResult constructed so far
    outcome,          \* what the coordinator or resolver gave its caller
    callerOutcome,    \* what execute_operator gave its caller
    timedOutAt,       \* position at which the timeout fired, "" if none
    trigCount,        \* number of ctx.trigger calls so far
    lastTrigger,      \* arguments and result of the last ctx.trigger call
    delegation,       \* what operator.resolve_delegation(ctx) returned
    queueResult,      \* how the delegation branch went
    failedAt,         \* the stage that failed, "" if none
    lastSecret,       \* key and result of the ctx.secret call of resolve_input
    conc              \* several invocations at once: their objects on a heap

vars == <<entry, pc, request_params, executor, keys, secretIdx, secrets,
          inputs_property, validation_ctx, execPlan, executeCalls,
          queueCalls, created, outcome, callerOutcome, timedOutAt,
          trigCount, lastTrigger, delegation, queueResult, failedAt,
          lastSecret, conc>>

NoOutcome == [kind |-> "none"]
Returned(value) == [kind |-> "returned", value |-> value]
Raised(exc) == [kind |-> "raised", exc |-> exc]
NoTrigger == [called |-> FALSE]
NoLookup == [called |-> FALSE]

\* The objects of concurrent invocations: a heap of lists and dicts, each a
\* sequence of entries, addressed by their position; an invocation holds
\* references into it.
NumInvocations == 2
Invocations == 1..NumInvocations
\* [] and {}: a new empty object
NewObject_shared(heap) ==
    IF heap = << >>
    THEN [heap |-> Append(heap, << >>), ref |-> Len(heap) + 1]
    ELSE [heap |-> heap, ref |-> 1]
NewObject(heap) == [heap |-> Append(heap, << >>), ref |-> Len(heap) + 1]
\* list.append / dict.__setitem__ on the object behind a reference
HeapAppend(heap, ref, x) == [heap EXCEPT ![ref] = Append(@, x)]
NoInvocation ==
    [pc |-> "idle", requests |-> 0, logs |-> 0, secrets |-> 0, errors |-> 0,
     triggered |-> 0, stored |-> FALSE, invalid |-> FALSE, result |-> 0]
NoInvocations ==
    [heap |-> << >>, inv |-> [i \in Invocations |-> NoInvocation]]

Init ==
    /\ entry = "none"
    /\ pc = "idle"
    /\ request_params = PyNone
    /\ executor = PyNone
    /\ keys = PyNone
    /\ secretIdx = 1
    /\ secrets = {}
    /\ inputs_property = NoProperty
    /\ validation_ctx = PyNone
    /\ execPlan = [form |-> "none", ends |-> "none"]
    /\ executeCalls = 0
    /\ queueCalls = 0
    /\ created = {}
    /\ outcome = NoOutcome
    /\ callerOutcome = NoOutcome
    /\ timedOutAt = ""
    /\ trigCount = 0
    /\ lastTrigger = NoTrigger
    /\ delegation = "unknown"
    /\ queueResult = ""
    /\ failedAt = ""
    /\ lastSecret = NoLookup
    /\ conc = NoInvocations

(***************************************************************************)
(* execute_operator and execute_or_delegate_operator.                     *)
(***************************************************************************)
\* execute_operator up to asyncio.run: _parse_ctx fails when the ctx names
\* neither a dataset nor a view
ExecuteOperatorCall ==
    /\ pc = "idle"
    /\ entry' = "execute_operator"
    /\ \E params \in ParamCases, parsed \in BOOLEAN :
          IF parsed
          THEN /\ request_params' = RequestParams(params)
               /\ pc' = "registry"
               /\ callerOutcome' = callerOutcome
          ELSE /\ request_params' = request_params
               /\ pc' = "done"
               /\ callerOutcome' = Raised("AttributeError")
    /\ UNCHANGED <<executor, keys, secretIdx, secrets, inputs_property,
                   validation_ctx, execPlan, executeCalls, queueCalls,
                   created, outcome, timedOutAt, trigCount, lastTrigger,
                   delegation, queueResult,
                   lastSecret, conc>>
    /\ failedAt' = IF pc' = "done" THEN "parse_ctx" ELSE failedAt

\* a direct call of the coroutine execute_or_delegate_operator
CoordinatorCall ==
    /\ pc = "idle"
    /\ entry' = "execute_or_delegate_operator"
    /\ \E rp \in RequestCases : request_params' = rp
    /\ pc' = "registry"
    /\ UNCHANGED <<executor, keys, secretIdx, secrets, inputs_property,
                   validation_ctx, execPlan, executeCalls, queueCalls,
                   created, outcome, callerOutcome, timedOutAt, trigCount,
                   lastTrigger,
                   delegation, queueResult, failedAt,
                   lastSecret, conc>>

\* prepare_operator_executor: registry lookup, Executor and context
RegistryLookup ==
    /\ pc = "registry"
    /\ \E exists \in BOOLEAN :
          IF exists
          THEN /\ \E k \in SecretKeyCases : keys' = k
               /\ executor' = NewExecutor
               /\ secrets' = {}
               /\ secretIdx' = 1
               /\ pc' = "secrets"
               /\ outcome' = outcome
          ELSE /\ outcome' = Raised("ValueError: Operator does not exist")
               /\ pc' = "done"
               /\ UNCHANGED <<executor, keys, secrets, secretIdx>>
    /\ UNCHANGED <<entry, request_params, inputs_property, validation_ctx,
                   execPlan, executeCalls, queueCalls, created,
                   callerOutcome, timedOutAt, trigCount, lastTrigger,
                   delegation, queueResult,
                   lastSecret, conc>>
    /\ failedAt' = IF pc' = "done" THEN "registry" ELSE failedAt

\* resolve_secret_values has returned (keys is None or the loop is over)
SecretsResolved ==
    IF keys = PyNone THEN TRUE ELSE secretIdx > Len(keys.items)

\* self._secrets[secret.key] = secret.value
SetSecret(map, key, value) ==
    {kv \in map : kv[1] # key} \cup {<<key, value>>}

\* one iteration of the loop of resolve_secret_values
GetSecret ==
    /\ pc = "secrets"
    /\ ~SecretsResolved
    /\ \E r \in {"value", "absent", "raise"} :
          /\ secrets' = IF r = "value"
                        THEN SetSecret(secrets, keys.items[secretIdx],
                                       "value of "
                                           \o keys.items[secretIdx])
                        ELSE secrets
          /\ IF r = "raise"
             THEN /\ outcome' = Raised("SecretsError")
                  /\ pc' = "done"
                  /\ secretIdx' = secretIdx
             ELSE /\ outcome' = outcome
                  /\ pc' = pc
                  /\ secretIdx' = secretIdx + 1
    /\ UNCHANGED <<entry, request_params, executor, keys, inputs_property,
                   validation_ctx, execPlan, executeCalls, queueCalls,
                   created, callerOutcome, timedOutAt, trigCount,
                   lastTrigger,
                   delegation, queueResult,
                   lastSecret, conc>>
    /\ failedAt' = IF pc' = "done" THEN "secrets" ELSE failedAt

\* ExecutionContext.secret: the map after the call and the returned value
Context_secret_resolving(map, key) ==
    IF \E kv \in map : kv[1] = key
    THEN [self |-> map,
          ret |-> PyStr((CHOOSE kv \in map : kv[1] = key)[2])]
    ELSE [self |-> SetSecret(map, key, "value of " \o key),
          ret |-> PyStr("value of " \o key)]
Context_secret(map, key) ==
    IF \E kv \in map : kv[1] = key
    THEN [self |-> map,
          ret |-> PyStr((CHOOSE kv \in map : kv[1] = key)[2])]
    ELSE [self |-> map, ret |-> PyNone]

\* the keys the operator looks up: declared ones and one it never declared
LookupKeys == {"K1", "K" \o ToString(MaxSecretKeys), "undeclared"}

\* operator.resolve_input(ctx) calls ctx.secret(key), at most once
OperatorSecret ==
    /\ pc = "secrets"
    /\ SecretsResolved
    /\ ~lastSecret.called
    /\ \E key \in LookupKeys :
          LET r == Context_secret(secrets, key)
          IN  /\ secrets' = r.self
              /\ lastSecret' = [called |-> TRUE, key |-> key, ret |-> r.ret]
    /\ UNCHANGED <<entry, pc, request_params, executor, keys, secretIdx,
                   inputs_property, validation_ctx, execPlan, executeCalls,
                   queueCalls, created, outcome, callerOutcome, timedOutAt,
                   trigCount, lastTrigger, delegation, queueResult, failedAt,
                   conc>>

\* inputs = operator.resolve_input(ctx)
ResolveInput ==
    /\ pc = "secrets"
    /\ SecretsResolved
    /\ \E raises \in BOOLEAN :
          IF raises
          THEN /\ outcome' = Raised("ResolveInputError")
               /\ pc' = "done"
               /\ inputs_property' = inputs_property
          ELSE /\ \E schema \in SchemaCases : inputs_property' = schema
               /\ pc' = "validate"
               /\ outcome' = outcome
    /\ UNCHANGED <<entry, request_params, executor, keys, secretIdx, secrets,
                   validation_ctx, execPlan, executeCalls, queueCalls,
                   created, callerOutcome, timedOutAt, trigCount,
                   lastTrigger,
                   delegation, queueResult,
                   conc>>
    /\ lastSecret' = NoLookup
    /\ failedAt' = IF pc' = "done" THEN "resolve_input" ELSE failedAt

\* validation_ctx = ValidationContext(ctx, inputs, operator)
BuildValidationContext ==
    /\ pc = "validate"
    /\ \E dsv \in BOOLEAN :
          LET vc == NewValidationContext(inputs_property,
                                         ContextParams(request_params), dsv)
          IN  /\ validation_ctx' = vc
              /\ IF vc.exc # ""
                 THEN /\ outcome' = Raised(vc.exc)
                      /\ pc' = "done"
                 ELSE /\ outcome' = outcome
                      /\ pc' = "prepared"
    /\ UNCHANGED <<entry, request_params, executor, keys, secretIdx, secrets,
                   inputs_property, execPlan, executeCalls, queueCalls,
                   created, callerOutcome, timedOutAt, trigCount,
                   lastTrigger,
                   delegation, queueResult,
                   lastSecret, conc>>
    /\ failedAt' = IF pc' = "done" THEN "validate" ELSE failedAt

\* the return of prepare_operator_executor and the isinstance test of the
\* coordinator
PrepareReturn ==
    /\ pc = "prepared"
    /\ IF validation_ctx.invalid
       THEN LET prepared == ExecutionResult(PyNone, PyNone,
                                            PyStr("Validation error"),
                                            validation_ctx, FALSE)
            IN  /\ created' = created \cup {prepared}
                /\ outcome' = Raised("ExecutionError: "
                                         \o to_exception(prepared))
                /\ pc' = "done"
                /\ UNCHANGED <<inputs_property, validation_ctx>>
       ELSE /\ pc' = "resolve_delegation"
            /\ inputs_property' = NoProperty
            /\ validation_ctx' = PyNone
            /\ UNCHANGED <<created, outcome>>
    /\ UNCHANGED <<entry, request_params, executor, keys, secretIdx, secrets,
                   execPlan, executeCalls, queueCalls, callerOutcome,
                   timedOutAt, trigCount, lastTrigger,
                   delegation, queueResult,
                   lastSecret, conc>>
    /\ failedAt' = IF pc' = "done" THEN "validation" ELSE failedAt

\* if operator.resolve_delegation(ctx)
ResolveDelegation ==
    /\ pc = "resolve_delegation"
    /\ \E r \in {"raise", "true", "false"} :
          /\ pc' = CASE r = "raise" -> "done"
                     [] r = "true" -> "queue"
                     [] OTHER -> "run"
          /\ outcome' = IF r = "raise"
                        THEN Raised("ResolveDelegationError")
                        ELSE outcome
    /\ UNCHANGED <<entry, request_params, executor, keys, secretIdx, secrets,
                   inputs_property, validation_ctx, execPlan, executeCalls,
                   queueCalls, created, callerOutcome, timedOutAt,
                   trigCount, lastTrigger,
                   queueResult,
                   lastSecret, conc>>
    /\ failedAt' = IF pc' = "done" THEN "resolve_delegation" ELSE failedAt
    /\ delegation' = CASE pc' = "done" -> "raised"
                      [] pc' = "queue" -> "true"
                      [] OTHER -> "false"

\* op.__dict__ of the queued operation; its context is an object
QueuedOperation(context) ==
    PyDict(<<"operator", "context", "run_state">>,
           <<PyStr("ns/say_hello"), context, PyStr("queued")>>)
ContextObject(rp) == [t |-> "ExecutionContext", request_params |-> rp]

\* execution = ExecutionResult(op.__dict__, executor, None, delegated=True)
DelegatedResult_not_flagged(op, exec) ==
    ExecutionResult(op, exec, PyNone, PyNone, FALSE)
DelegatedResult(op, exec) ==
    ExecutionResult(op, exec, PyNone, PyNone, TRUE)

\* ExecutionResult(executor=executor, error=traceback.format_exc())
FailedResult_no_error(exec, exc) ==
    ExecutionResult(PyNone, exec, PyNone, PyNone, FALSE)
FailedResult_no_executor(exec, exc) ==
    ExecutionResult(PyNone, PyNone, format_exc(exc), PyNone, FALSE)
FailedResult_delegated(exec, exc) ==
    ExecutionResult(PyNone, exec, format_exc(exc), PyNone, TRUE)
FailedResult(exec, exc) ==
    ExecutionResult(PyNone, exec, format_exc(exc), PyNone, FALSE)

\* ExecutionResult(result=raw_result, executor=executor)
SucceededResult(raw_result, exec) ==
    ExecutionResult(raw_result, exec, PyNone, PyNone, FALSE)

\* the delegation branch: queue_operation, the result and its context
QueueOperation_fallback ==
    /\ pc = "queue"
    /\ queueCalls' = queueCalls + 1
    /\ \E r \in {"queue raises", "queued", "queued without context",
                 "context serialize raises"} :
          LET failed(exc) == FailedResult(executor, exc)
              built(context) == DelegatedResult(QueuedOperation(context),
                                                executor)
              obj == ContextObject(OrEmptyDict(request_params))
          IN  /\ queueResult' = r
              /\ CASE r = "queue raises" ->
                     /\ created' = created \cup {failed("QueueError")}
                     /\ outcome' = Returned(failed("QueueError"))
                [] r = "queued" ->
                     /\ created' = created
                                     \cup {built(serialize(request_params))}
                     /\ outcome' = Returned(built(serialize(request_params)))
                [] r = "queued without context" ->
                     /\ created' = created \cup {built(PyNone)}
                     /\ outcome' = Returned(built(PyNone))
                [] OTHER ->
                     /\ created' = created \cup {built(obj),
                                                 failed("SerializeError")}
                     /\ outcome' = Returned(failed("SerializeError"))
    /\ pc' = IF outcome'.value.error # PyNone THEN "run" ELSE "done"
    /\ UNCHANGED <<entry, request_params, executor, keys, secretIdx, secrets,
                   inputs_property, validation_ctx, execPlan, executeCalls,
                   callerOutcome, timedOutAt, trigCount, lastTrigger,
                   delegation,
                   lastSecret, conc>>
    /\ failedAt' = IF outcome'.value.error # PyNone THEN "queue"
                   ELSE failedAt
QueueOperation ==
    /\ pc = "queue"
    /\ queueCalls' = queueCalls + 1
    /\ \E r \in {"queue raises", "queued", "queued without context",
                 "context serialize raises"} :
          LET failed(exc) == FailedResult(executor, exc)
              built(context) == DelegatedResult(QueuedOperation(context),
                                                executor)
              obj == ContextObject(OrEmptyDict(request_params))
          IN  /\ queueResult' = r
              /\ CASE r = "queue raises" ->
                     /\ created' = created \cup {failed("QueueError")}
                     /\ outcome' = Returned(failed("QueueError"))
                [] r = "queued" ->
                     /\ created' = created
                                     \cup {built(serialize(request_params))}
                     /\ outcome' = Returned(built(serialize(request_params)))
                [] r = "queued without context" ->
                     /\ created' = created \cup {built(PyNone)}
                     /\ outcome' = Returned(built(PyNone))
                [] OTHER ->
                     /\ created' = created \cup {built(obj),
                                                 failed("SerializeError")}
                     /\ outcome' = Returned(failed("SerializeError"))
    /\ pc' = "done"
    /\ UNCHANGED <<entry, request_params, executor, keys, secretIdx, secrets,
                   inputs_property, validation_ctx, execPlan, executeCalls,
                   callerOutcome, timedOutAt, trigCount, lastTrigger,
                   delegation,
                   lastSecret, conc>>
    /\ failedAt' = IF outcome'.value.error # PyNone THEN "queue"
                   ELSE failedAt

\* operator.execute(ctx) is called, as a coroutine or through run_sync_task
ExecuteStart ==
    /\ pc = "run"
    /\ \E form \in {"coroutine", "sync"}, ends \in {"return", "raise", "hang"} :
          execPlan' = [form |-> form, ends |-> ends]
    /\ executeCalls' = executeCalls + 1
    /\ pc' = "execute"
    /\ UNCHANGED <<entry, request_params, executor, keys, secretIdx, secrets,
                   inputs_property, validation_ctx, queueCalls, created,
                   outcome, callerOutcome, timedOutAt, trigCount,
                   lastTrigger,
                   delegation, queueResult, failedAt,
                   lastSecret, conc>>

\* the operator body calls ctx.trigger(operator_name, params)
OperatorTrigger ==
    /\ pc = "execute"
    /\ trigCount < MaxTriggers
    /\ \E operator_name \in TriggerNames, params \in TriggerParams :
          LET r == Context_trigger(executor, operator_name, params)
          IN  /\ executor' = r.self
              /\ lastTrigger' = [called |-> TRUE, via |-> "trigger",
                                 operator_name |-> operator_name,
                                 params |-> params, ret |-> r.ret,
                                 exc |-> r.exc]
    /\ trigCount' = trigCount + 1
    /\ UNCHANGED <<entry, pc, request_params, keys, secretIdx, secrets,
                   inputs_property, validation_ctx, execPlan, executeCalls,
                   queueCalls, created, outcome, callerOutcome, timedOutAt,
                   delegation, queueResult, failedAt,
                   lastSecret, conc>>

\* the operator body calls ctx.log(message)
OperatorLog ==
    /\ pc = "execute"
    /\ trigCount < MaxTriggers
    /\ \E message \in {PyStr("hello")} :
          LET r == Context_log(executor, message)
          IN  /\ executor' = r.self
              /\ lastTrigger' = [called |-> TRUE, via |-> "log",
                                 message |-> message,
                                 operator_name |-> "console_log",
                                 params |-> PyDict(<<"message">>,
                                                   <<message>>),
                                 ret |-> r.ret, exc |-> r.exc]
    /\ trigCount' = trigCount + 1
    /\ UNCHANGED <<entry, pc, request_params, keys, secretIdx, secrets,
                   inputs_property, validation_ctx, execPlan, executeCalls,
                   queueCalls, created, outcome, callerOutcome, timedOutAt,
                   delegation, queueResult, failedAt,
                   lastSecret, conc>>

\* operator.execute returns raw_result
ExecuteReturn ==
    /\ pc = "execute"
    /\ execPlan.ends = "return"
    /\ \E raw_result \in RawResults :
          LET res == SucceededResult(raw_result, executor)
          IN  /\ created' = created \cup {res}
              /\ outcome' = Returned(res)
    /\ pc' = "done"
    /\ UNCHANGED <<entry, request_params, executor, keys, secretIdx, secrets,
                   inputs_property, validation_ctx, execPlan, executeCalls,
                   queueCalls, callerOutcome, timedOutAt, trigCount,
                   lastTrigger,
                   delegation, queueResult, failedAt,
                   lastSecret, conc>>

\* operator.execute raises: except Exception of the coordinator
ExecuteRaise ==
    /\ pc = "execute"
    /\ execPlan.ends = "raise"
    /\ LET res == FailedResult(executor, "RuntimeError")
       IN  /\ created' = created \cup {res}
           /\ outcome' = Returned(res)
    /\ pc' = "done"
    /\ UNCHANGED <<entry, request_params, executor, keys, secretIdx, secrets,
                   inputs_property, validation_ctx, execPlan, executeCalls,
                   queueCalls, callerOutcome, timedOutAt, trigCount,
                   lastTrigger,
                   delegation, queueResult,
                   lastSecret, conc>>
    /\ failedAt' = "execute"

\* the positions at which the decorated coroutine is suspended: the
\* decorator wraps the whole of execute_or_delegate_operator
TimeoutScope_prepare_only == {"secrets"}
TimeoutScope == {"secrets", "execute"}

\* coroutine_timeout expires while the coroutine is suspended
Timeout ==
    /\ pc \in TimeoutScope
    /\ pc = "secrets" => ~SecretsResolved
    /\ LET res == ExecutionResult(PyNone, PyNone, PyStr("TimeoutError"),
                                  PyNone, FALSE)
       IN  /\ created' = created \cup {res}
           /\ outcome' = Returned(res)
    /\ timedOutAt' = pc
    /\ pc' = "done"
    /\ UNCHANGED <<entry, request_params, executor, keys, secretIdx, secrets,
                   inputs_property, validation_ctx, execPlan, executeCalls,
                   queueCalls, callerOutcome, trigCount, lastTrigger,
                   delegation, queueResult,
                   lastSecret, conc>>
    /\ failedAt' = "timeout"

\* asyncio.run hands the coroutine's result or exception to the caller of
\* execute_operator
ExecuteOperatorReturn ==
    /\ entry = "execute_operator"
    /\ pc = "done"
    /\ outcome # NoOutcome
    /\ callerOutcome = NoOutcome
    /\ callerOutcome' = outcome
    /\ UNCHANGED <<entry, pc, request_params, executor, keys, secretIdx,
                   secrets, inputs_property, validation_ctx, execPlan,
                   executeCalls, queueCalls, created, outcome, timedOutAt,
                   trigCount, lastTrigger,
                   delegation, queueResult, failedAt,
                   lastSecret, conc>>

(***************************************************************************)
(* resolve_type and resolve_placement.                                     *)
(***************************************************************************)
\* resolve_type up to the call of operator.resolve_type
ResolveTypeCall ==
    /\ pc = "idle"
    /\ entry' = "resolve_type"
    /\ \E rp \in RequestCases, exists \in BOOLEAN :
          /\ request_params' = rp
          /\ IF exists
             THEN /\ pc' = "resolving"
                  /\ outcome' = outcome
             ELSE /\ pc' = "done"
                  /\ outcome' = Raised("ValueError: Operator does not exist")
    /\ UNCHANGED <<executor, keys, secretIdx, secrets, inputs_property,
                   validation_ctx, execPlan, executeCalls, queueCalls,
                   created, callerOutcome, timedOutAt, trigCount,
                   lastTrigger,
                   delegation, queueResult,
                   lastSecret, conc>>
    /\ failedAt' = IF pc' = "done" THEN "registry" ELSE failedAt

\* resolve_placement up to the call of operator.resolve_placement
ResolvePlacementCall ==
    /\ pc = "idle"
    /\ entry' = "resolve_placement"
    /\ \E rp \in RequestCases : request_params' = rp
    /\ pc' = "resolving"
    /\ UNCHANGED <<executor, keys, secretIdx, secrets, inputs_property,
                   validation_ctx, execPlan, executeCalls, queueCalls,
                   created, outcome, callerOutcome, timedOutAt, trigCount,
                   lastTrigger,
                   delegation, queueResult, failedAt,
                   lastSecret, conc>>

\* except Exception as e of resolve_type and of resolve_placement
ResolverEnvelope(exc_type, exc_msg) ==
    IF entry = "resolve_type"
    THEN ExecutionResult(PyNone, PyNone,
                         format_exc(exc_type \o ": " \o exc_msg), PyNone,
                         FALSE)
    ELSE ExecutionResult(PyNone, PyNone, PyStr(exc_msg), PyNone, FALSE)

\* the operator's resolve_type / resolve_placement returns or raises
ResolverReturn ==
    /\ pc = "resolving"
    /\ \E raises \in BOOLEAN :
          IF raises
          THEN /\ created' = created
                      \cup {ResolverEnvelope("RuntimeError", "failed")}
               /\ outcome' = Returned(ResolverEnvelope("RuntimeError",
                                                       "failed"))
               /\ failedAt' = "resolver"
          ELSE /\ created' = created
               /\ \E schema \in SchemaCases : outcome' = Returned(schema)
               /\ failedAt' = failedAt
    /\ pc' = "done"
    /\ UNCHANGED <<entry, request_params, executor, keys, secretIdx, secrets,
                   inputs_property, validation_ctx, execPlan, executeCalls,
                   queueCalls, callerOutcome, timedOutAt, trigCount,
                   lastTrigger,
                   delegation, queueResult,
                   lastSecret, conc>>

\* the operator calls ctx.trigger or ctx.log while resolving and lets the
\* exception of the call propagate
ResolverTrigger ==
    /\ pc = "resolving"
    /\ \E via \in {"trigger", "log"}, operator_name \in TriggerNames,
          params \in TriggerParams :
          LET r == IF via = "trigger"
                   THEN Context_trigger(executor, operator_name, params)
                   ELSE Context_log(executor, params)
              env == ResolverEnvelope("ValueError", "No executor available")
          IN  /\ executor' = r.self
              /\ lastTrigger' = [called |-> TRUE, via |-> via,
                                 message |-> params,
                                 operator_name |->
                                     IF via = "trigger" THEN operator_name
                                     ELSE "console_log",
                                 params |->
                                     IF via = "trigger" THEN params
                                     ELSE PyDict(<<"message">>, <<params>>),
                                 ret |-> r.ret, exc |-> r.exc]
              /\ IF r.exc # ""
                 THEN /\ created' = created \cup {env}
                      /\ outcome' = Returned(env)
                      /\ pc' = "done"
                 ELSE UNCHANGED <<created, outcome, pc>>
    /\ trigCount' = trigCount + 1
    /\ UNCHANGED <<entry, request_params, keys, secretIdx, secrets,
                   inputs_property, validation_ctx, execPlan, executeCalls,
                   queueCalls, callerOutcome, timedOutAt,
                   delegation, queueResult,
                   lastSecret, conc>>
    /\ failedAt' = IF pc' = "done" THEN "resolver" ELSE failedAt

Next ==
    \/ ExecuteOperatorCall
    \/ CoordinatorCall
    \/ RegistryLookup
    \/ GetSecret
    \/ OperatorSecret
    \/ ResolveInput
    \/ BuildValidationContext
    \/ PrepareReturn
    \/ ResolveDelegation
    \/ QueueOperation
    \/ ExecuteStart
    \/ OperatorTrigger
    \/ OperatorLog
    \/ ExecuteReturn
    \/ ExecuteRaise
    \/ Timeout
    \/ ExecuteOperatorReturn
    \/ ResolveTypeCall
    \/ ResolvePlacementCall
    \/ ResolverReturn
    \/ ResolverTrigger

Spec == Init /\ [][Next]_vars
\* the event loop keeps running the coroutine and its timer; the operator
\* body itself is under no obligation to trigger or log
CoordinatorStep ==
    \/ RegistryLookup
    \/ GetSecret
    \/ ResolveInput
    \/ BuildValidationContext
    \/ PrepareReturn
    \/ ResolveDelegation
    \/ QueueOperation
    \/ ExecuteStart
    \/ ExecuteReturn
    \/ ExecuteRaise
    \/ ExecuteOperatorReturn
FairSpec == Spec /\ WF_vars(CoordinatorStep) /\ WF_vars(Timeout)

\* the runs in which the timer never expires (fo.config.operator_timeout
\* longer than the run)
UntimedNext ==
    \/ ExecuteOperatorCall
    \/ CoordinatorCall
    \/ CoordinatorStep
    \/ OperatorSecret
    \/ OperatorTrigger
    \/ OperatorLog
    \/ ResolveTypeCall
    \/ ResolvePlacementCall
    \/ ResolverReturn
    \/ ResolverTrigger
UntimedSpec == Init /\ [][UntimedNext]_vars

(***************************************************************************)
(* Several invocations of the coordinator at once.  Each step is what one *)
(* invocation does between two awaits; steps of different invocations     *)
(* interleave freely.  Only the objects matter here: which lists and      *)
(* dicts an invocation creates and which it writes to.                     *)
(***************************************************************************)
oneInvocationVars ==
    <<entry, pc, request_params, executor, keys, secretIdx, secrets,
      inputs_property, validation_ctx, execPlan, executeCalls, queueCalls,
      created, outcome, callerOutcome, timedOutAt, trigCount, lastTrigger,
      delegation, queueResult, failedAt, lastSecret>>

\* what invocation i writes: its k-th request, its secret, its error
RequestOf(i, k) ==
    "request " \o ToString(k) \o " of invocation " \o ToString(i)
SecretOf(i) == "secret of invocation " \o ToString(i)
ErrorOf(i) == "error of invocation " \o ToString(i)

\* executor = Executor(); ctx = ExecutionContext(request_params, executor)
ConcPrepare(i) ==
    /\ conc.inv[i].pc = "idle"
    /\ LET requests == NewObject(conc.heap)
           logs == NewObject(requests.heap)
           secrets_ == NewObject(logs.heap)
       IN  conc' = [heap |-> secrets_.heap,
                    inv |-> [conc.inv EXCEPT ![i] =
                                [@ EXCEPT !.pc = "secrets",
                                          !.requests = requests.ref,
                                          !.logs = logs.ref,
                                          !.secrets = secrets_.ref]]]
    /\ UNCHANGED oneInvocationVars

\* await ctx.resolve_secret_values(operator._plugin_secrets), one key
ConcGetSecret(i) ==
    /\ conc.inv[i].pc = "secrets"
    /\ \E found \in BOOLEAN :
          conc' = [heap |-> IF found
                            THEN HeapAppend(conc.heap, conc.inv[i].secrets,
                                            SecretOf(i))
                            ELSE conc.heap,
                   inv |-> [conc.inv EXCEPT ![i] =
                               [@ EXCEPT !.pc = "validate",
                                         !.stored = found]]]
    /\ UNCHANGED oneInvocationVars

\* validation_ctx = ValidationContext(ctx, inputs, operator)
ConcValidate(i) ==
    /\ conc.inv[i].pc = "validate"
    /\ \E invalid \in BOOLEAN :
          LET errors == NewObject(conc.heap)
          IN  conc' = [heap |-> IF invalid
                                THEN HeapAppend(errors.heap, errors.ref,
                                                ErrorOf(i))
                                ELSE errors.heap,
                       inv |-> [conc.inv EXCEPT ![i] =
                                   [@ EXCEPT !.pc = IF invalid THEN "done"
                                                    ELSE "run",
                                             !.errors = errors.ref,
                                             !.invalid = invalid]]]
    /\ UNCHANGED oneInvocationVars

\* the operator's execute calls ctx.trigger
ConcTrigger(i) ==
    /\ conc.inv[i].pc = "run"
    /\ conc.inv[i].triggered < MaxTriggers
    /\ conc' = [heap |-> HeapAppend(conc.heap, conc.inv[i].requests,
                                    RequestOf(i, conc.inv[i].triggered + 1)),
                inv |-> [conc.inv EXCEPT ![i] =
                            [@ EXCEPT !.triggered = @ + 1]]]
    /\ UNCHANGED oneInvocationVars

\* return ExecutionResult(result=raw_result, executor=executor)
ConcReturn(i) ==
    /\ conc.inv[i].pc = "run"
    /\ conc' = [heap |-> conc.heap,
                inv |-> [conc.inv EXCEPT ![i] =
                            [@ EXCEPT !.pc = "done",
                                      !.result = conc.inv[i].requests]]]
    /\ UNCHANGED oneInvocationVars

ConcNext ==
    \/ \E i \in Invocations : ConcPrepare(i)
    \/ \E i \in Invocations : ConcGetSecret(i)
    \/ \E i \in Invocations : ConcValidate(i)
    \/ \E i \in Invocations : ConcTrigger(i)
    \/ \E i \in Invocations : ConcReturn(i)
ConcSpec == Init /\ [][ConcNext]_vars

(***************************************************************************)
(* The validator on its own: the coordinator stands right after           *)
(* operator.resolve_input(ctx) returned, for a wider range of schemas and *)
(* params than the end-to-end runs use.                                    *)
(***************************************************************************)
NumberList == Property(List(Number), FALSE, FALSE, "")
Choice == Property(Enum(<<PyStr("a"), PyStr("b")>>), TRUE, FALSE, "")
Profile ==
    Property(Object(<<"tags", "who">>,
                    <<NumberList,
                      Property(SayHello.type, TRUE, FALSE, "")>>),
             FALSE, FALSE, "")
PartlyBroken ==
    Property(Object(<<"name", "age">>,
                    <<Property(String, TRUE, TRUE, "Unknown field"),
                      Property(Number, TRUE, FALSE, "")>>),
             FALSE, FALSE, "")
ValidatorSchemas ==
    {NoProperty, SayHello, TwoRequired, Broken, NumberList, Choice, Profile,
     PartlyBroken,
     Property(String, TRUE, FALSE, ""), Property(Number, FALSE, FALSE, ""),
     Property(Boolean, TRUE, FALSE, "")}

Mixed == PyList(<<PyInt(1), PyStr("x"), PyInt(3)>>)
ValidatorValues ==
    {PyNone, EmptyDict, Ada, BadSiblings,
     PyDict(<<"name", "age">>, <<PyStr("Ada"), PyFloat(73)>>),
     PyStr("a"), PyStr("text"), PyInt(1), PyFloat(3), PyBool(TRUE),
     Mixed, PyList(<<PyStr("x"), PyFloat(5), PyBool(FALSE)>>),
     PyList(<<PyInt(1), PyFloat(5)>>),
     PyDict(<<"tags", "who">>, <<Mixed, EmptyDict>>),
     PyDict(<<"tags", "who">>, <<PyList(<<PyInt(2)>>), Ada>>),
     PyDict(<<"tags">>, <<PyStr("x")>>),
     PyDict(<<"who">>, <<PyInt(1)>>)}

ValidatorInit ==
    /\ entry = "execute_or_delegate_operator"
    /\ pc = "validate"
    /\ \E v \in ValidatorValues : request_params = RequestParams(v)
    /\ executor = NewExecutor
    /\ keys = PyNone
    /\ secretIdx = 1
    /\ secrets = {}
    /\ inputs_property \in ValidatorSchemas
    /\ validation_ctx = PyNone
    /\ execPlan = [form |-> "none", ends |-> "none"]
    /\ executeCalls = 0
    /\ queueCalls = 0
    /\ created = {}
    /\ outcome = NoOutcome
    /\ callerOutcome = NoOutcome
    /\ timedOutAt = ""
    /\ trigCount = 0
    /\ lastTrigger = NoTrigger
    /\ delegation = "unknown"
    /\ queueResult = ""
    /\ failedAt = ""
    /\ lastSecret = NoLookup
    /\ conc = NoInvocations

ValidatorNext ==
    \/ BuildValidationContext
    \/ PrepareReturn
ValidatorSpec == ValidatorInit /\ [][ValidatorNext]_vars

(***************************************************************************)
(* The states of the coordinator, read off the position in the code.      *)
(***************************************************************************)
IsCoordinator == entry \in {"execute_operator", "execute_or_delegate_operator"}

CoordState ==
    CASE pc \in {"registry", "secrets"} -> "Resolving"
      [] pc \in {"validate", "prepared"} -> "Validating"
      [] pc \in {"resolve_delegation", "queue"} -> "DecidingDelegation"
      [] pc \in {"run", "execute"} -> "Running"
      [] pc = "done" /\ IsCoordinator /\ outcome # NoOutcome ->
            IF outcome.kind = "raised" THEN "Failed"
            ELSE IF outcome.value.delegated THEN "Delegated"
            ELSE IF outcome.value.error = PyNone THEN "Succeeded"
            ELSE "Failed"
      [] OTHER -> "NotStarted"

Terminal == {"Delegated", "Succeeded", "Failed"}
Finished == IsCoordinator /\ pc = "done" /\ outcome # NoOutcome

(***************************************************************************)
(* C1.  Original statement: whenever resolve_delegation(ctx) returned     *)
(* true, operator.execute is never called and the result that is returned *)
(* has its delegated flag set.                                             *)
(***************************************************************************)
C1_DelegationAlwaysDelegated ==
    delegation = "true" =>
        /\ executeCalls = 0
        /\ Finished => /\ outcome.kind = "returned"
                       /\ outcome.value.delegated = TRUE

\* C1 as amended: whenever resolve_delegation(ctx) returned true,
\* operator.execute is never called and a result is returned; its delegated
\* flag is true exactly when queueing and the re-serialization of the queued
\* context succeeded, otherwise it is a failed result (error set, delegated
\* false).
C1_DelegationNeverExecutes ==
    delegation = "true" =>
        /\ executeCalls = 0
        /\ Finished =>
              /\ outcome.kind = "returned"
              /\ outcome.value.delegated
                    = (queueResult \in {"queued", "queued without context"})
              /\ outcome.value.delegated = (outcome.value.error = PyNone)

C1_Witness ==
    /\ Finished
    /\ delegation = "true"
    /\ queueResult = "queued"
    /\ outcome.value.delegated

C3_ExecuteExceptionCaught ==
    (Finished /\ failedAt = "execute") =>
        /\ outcome.kind = "returned"
        /\ outcome.value.error
              = PyStr("Traceback (most recent call last): RuntimeError")
        /\ outcome.value.result = PyNone
        /\ outcome.value.delegated = FALSE
        /\ outcome.value.executor # PyNone
        /\ Len(outcome.value.executor.requests) = trigCount
        /\ trigCount > 0 =>
              LET last == outcome.value.executor.requests[trigCount]
              IN  /\ last.operator_uri = lastTrigger.operator_name
                  /\ last.params = OrEmptyDict(lastTrigger.params)

C3_Witness ==
    /\ Finished
    /\ failedAt = "execute"
    /\ execPlan.form = "sync"
    /\ trigCount = 2
    /\ Len(outcome.value.executor.requests) = 2

(***************************************************************************)
(* C4.  When validation yields at least one error the coordinator fails   *)
(* without queueing or executing: the failure message is "Validation      *)
(* error" followed by the path and the reason of errors[0] only, and the  *)
(* failed result built for it carries the ValidationContext with all      *)
(* errors in order.                                                        *)
(***************************************************************************)
C4_ValidationFailure ==
    [][(pc = "prepared" /\ validation_ctx.invalid) =>
          /\ pc' = "done"
          /\ failedAt' = "validation"
          /\ CoordState' = "Failed"
          /\ executeCalls' = 0
          /\ queueCalls' = 0
          /\ validation_ctx' = validation_ctx
          /\ LET first == validation_ctx.errors[1]
             IN  outcome' = Raised("ExecutionError: Validation error"
                                      \o ". Path: "
                                      \o lstrip_dot(first.path)
                                      \o ". Reason: " \o first.reason)
          /\ \E r \in created' :
                /\ r.error = PyStr("Validation error")
                /\ r.validation_ctx = validation_ctx]_vars

C4_Witness ==
    /\ pc = "done"
    /\ failedAt = "validation"
    /\ Len(validation_ctx.errors) = 2
    /\ validation_ctx.errors[1].path = ".name"
    /\ validation_ctx.errors[2].path = ".age"
    /\ validation_ctx.errors[2].reason = "Invalid value type"
    /\ outcome = Raised("ExecutionError: Validation error. Path: name. "
                            \o "Reason: Invalid value type")

(***************************************************************************)
(* C5.  The coordinator's states are visited only in the order Resolving, *)
(* Validating, DecidingDelegation, then Delegated or Running followed by  *)
(* Succeeded, with Failed reachable from every non-terminal state; the    *)
(* three terminal states are never left and every invocation reaches one; *)
(* operator.execute is called at most once and only in Running,           *)
(* queue_operation at most once and only in DecidingDelegation, and never *)
(* both.                                                                   *)
(***************************************************************************)
AllowedTransitions ==
    {<<"NotStarted", "Resolving">>,
     <<"Resolving", "Validating">>, <<"Resolving", "Failed">>,
     <<"Validating", "DecidingDelegation">>, <<"Validating", "Failed">>,
     <<"DecidingDelegation", "Delegated">>,
     <<"DecidingDelegation", "Running">>,
     <<"DecidingDelegation", "Failed">>,
     <<"Running", "Succeeded">>, <<"Running", "Failed">>}

C5_StateOrder ==
    /\ [][/\ CoordState' # CoordState
             => <<CoordState, CoordState'>> \in AllowedTransitions
          /\ CoordState \in Terminal => CoordState' = CoordState
          /\ executeCalls' # executeCalls
             => CoordState = "Running" /\ executeCalls = 0
          /\ queueCalls' # queueCalls
             => CoordState = "DecidingDelegation" /\ queueCalls = 0]_vars
    /\ [](executeCalls + queueCalls <= 1)
    /\ [](Finished => CoordState \in Terminal)
    /\ [](CoordState = "Resolving" => <>(CoordState \in Terminal))

C5_Witness ==
    /\ CoordState = "Succeeded"
    /\ executeCalls = 1
    /\ queueCalls = 0

(***************************************************************************)
(* C6.  An operator body that never completes within the timeout          *)
(* eventually yields a failed result with a timeout error, returned to    *)
(* the caller; such an invocation has no other outcome.                   *)
(***************************************************************************)
HangingBody == pc = "execute" /\ execPlan.ends = "hang"

TimeoutResult ==
    /\ Finished
    /\ failedAt = "timeout"
    /\ outcome.kind = "returned"
    /\ outcome.value.error = PyStr("TimeoutError")
    /\ outcome.value.result = PyNone
    /\ outcome.value.delegated = FALSE

C7_TimeoutOnlyWhileRunning ==
    timedOutAt # "" => timedOutAt = "execute"

(***************************************************************************)
(* C8.  In every ExecutionResult that is constructed, delegated = true    *)
(* implies error = null, also when queueing or re-serializing the queued  *)
(* context fails.                                                          *)
(***************************************************************************)
C8_DelegatedHasNoError ==
    /\ \A r \in created : r.delegated => r.error = PyNone
    /\ (outcome.kind = "returned" /\ IsCoordinator)
          => (outcome.value.delegated => outcome.value.error = PyNone)

C8_Witness ==
    /\ Finished
    /\ queueResult = "context serialize raises"
    /\ \E r \in created : r.delegated
    /\ \E r \in created : r.error # PyNone

(***************************************************************************)
(* C9.  execute_operator raises the captured error whenever the outcome   *)
(* is a failure; it returns an ExecutionResult only for the Succeeded and *)
(* Delegated outcomes.                                                     *)
(***************************************************************************)
C9_FailureIsRaised ==
    callerOutcome.kind = "returned" => callerOutcome.value.error = PyNone

(***************************************************************************)
(* C10.  ctx.trigger(name, params) on a context without an Executor fails *)
(* with "No executor available" and changes nothing; with an Executor it  *)
(* appends exactly one InvocationRequest (name, params) at the end of the *)
(* request list and returns a SUCCESS message whose body is that request. *)
(***************************************************************************)
C10_Trigger ==
    [][(trigCount' = trigCount + 1 /\ lastTrigger'.via = "trigger") =>
          LET name == lastTrigger'.operator_name
              params == lastTrigger'.params
              req == [operator_uri |-> name,
                      params |-> IF params = PyNone THEN EmptyDict
                                 ELSE params]
          IN  IF executor = PyNone
              THEN /\ lastTrigger'.exc = "ValueError: No executor available"
                   /\ executor' = executor
              ELSE /\ lastTrigger'.exc = ""
                   /\ executor'.requests = Append(executor.requests, req)
                   /\ executor'.logs = executor.logs
                   /\ lastTrigger'.ret.type = "SUCCESS"
                   /\ lastTrigger'.ret.body = req]_vars

C10_Witness ==
    /\ lastTrigger.called
    /\ lastTrigger.via = "trigger"
    /\ lastTrigger.exc = ""
    /\ executor # PyNone
    /\ Len(executor.requests) = 2
    /\ executor.requests[2].operator_uri = lastTrigger.operator_name
    /\ executor.requests[1] # executor.requests[2]

(***************************************************************************)
(* C11.  ctx.log(message) behaves as ctx.trigger("console_log",           *)
(* {"message": message}): with an Executor it appends one request with    *)
(* URI "console_log" and params {"message": message} and leaves the       *)
(* Executor's log list unchanged; without an Executor it fails with the   *)
(* no-executor condition and changes nothing.                             *)
(***************************************************************************)
C11_Log ==
    [][(trigCount' = trigCount + 1 /\ lastTrigger'.via = "log") =>
          LET req == [operator_uri |-> "console_log",
                      params |-> [t |-> "dict", keys |-> <<"message">>,
                                  vals |-> <<lastTrigger'.message>>]]
              same == Context_trigger(executor, "console_log", req.params)
          IN  /\ executor' = same.self
              /\ lastTrigger'.exc = same.exc
              /\ IF executor = PyNone
                 THEN /\ lastTrigger'.exc
                            = "ValueError: No executor available"
                      /\ executor' = executor
                 ELSE /\ lastTrigger'.exc = ""
                      /\ executor'.requests = Append(executor.requests, req)
                      /\ executor'.logs = executor.logs]_vars

C11_Witness ==
    /\ lastTrigger.called
    /\ lastTrigger.via = "log"
    /\ lastTrigger.exc = ""
    /\ executor # PyNone
    /\ Len(executor.requests) = 2
    /\ executor.requests[2].operator_uri = "console_log"
    /\ executor.requests[2].params.vals = <<PyStr("hello")>>
    /\ executor.logs = << >>


(***************************************************************************)
(* The validation rules as the specification states them, written          *)
(* independently of the validator above: the nodes a validation reaches,   *)
(* in pre-order, and the fault the rules find at each of them.             *)
(***************************************************************************)
RECURSIVE Visited(_, _, _), VisitedFrom(_, _, _, _)
Visited(property, value, path) ==
    LET self == <<[path |-> path, property |-> property, value |-> value]>>
    IN  IF property.invalid
        THEN self
        ELSE IF value = PyNone
        THEN self
        ELSE IF property.type.cls = "Object" /\ value.t = "dict"
        THEN self \o VisitedFrom(property, value, path, 1)
        ELSE IF property.type.cls = "List" /\ value.t = "list"
        THEN self \o VisitedFrom(property, value, path, 1)
        ELSE self
VisitedFrom(property, value, path, i) ==
    IF property.type.cls = "Object"
    THEN IF i > Len(property.type.names)
         THEN << >>
         ELSE Visited(property.type.props[i],
                      DictGet(value, property.type.names[i]),
                      path \o "." \o property.type.names[i])
                  \o VisitedFrom(property, value, path, i + 1)
    ELSE IF i > Len(value.items)
         THEN << >>
         ELSE Visited(DefaultProperty(property.type.element_type),
                      value.items[i],
                      path \o "[" \o ToString(i - 1) \o "]")
                  \o VisitedFrom(property, value, path, i + 1)

\* the reason the rules give at one reached node, "" when they give none;
\* what an Object node says about a value that is not keyed is left open
NodeFault(n) ==
    LET cls == n.property.type.cls
    IN  IF n.property.invalid
        THEN n.property.error_message
        ELSE IF n.value = PyNone
        THEN IF n.property.required THEN "Required property" ELSE ""
        ELSE IF cls = "Enum"
        THEN IF \E i \in 1..Len(n.property.type.values) :
                    n.property.type.values[i] = n.value
             THEN ""
             ELSE "Invalid enum value"
        ELSE IF cls = "List"
        THEN IF n.value.t = "list" THEN "" ELSE "Invalid list"
        ELSE IF cls = "Object"
        THEN ""
        ELSE IF \/ cls = "String" /\ n.value.t = "str"
                \/ cls = "Number" /\ n.value.t \in {"int", "float"}
                \/ cls = "Boolean" /\ n.value.t = "bool"
        THEN ""
        ELSE "Invalid value type"

\* every Object node reached holds a keyed value
KeyedObjects(visited) ==
    \A i \in 1..Len(visited) :
        (/\ visited[i].property.type.cls = "Object"
         /\ ~visited[i].property.invalid
         /\ visited[i].value # PyNone) => visited[i].value.t = "dict"
WellTyped(visited) ==
    /\ KeyedObjects(visited)
    /\ \A i \in 1..Len(visited) : NodeFault(visited[i]) = ""

\* the (path, reason, custom) of the faults, in the order of the visit
RECURSIVE Faults(_, _)
Faults(visited, customOnly) ==
    IF visited = << >>
    THEN << >>
    ELSE LET n == Head(visited)
             rest == Faults(Tail(visited), customOnly)
         IN  IF NodeFault(n) = "" \/ (customOnly /\ ~n.property.invalid)
             THEN rest
             ELSE <<[path |-> n.path, reason |-> NodeFault(n),
                     custom |-> n.property.invalid]>> \o rest
Recorded(errors) ==
    [i \in 1..Len(errors) |->
        [path |-> errors[i].path, reason |-> errors[i].reason,
         custom |-> errors[i].custom]]
\* q lies strictly below p in the value tree
Below(p, q) ==
    /\ Len(q) > Len(p)
    /\ SubSeq(q, 1, Len(p)) = p
    /\ SubSeq(q, Len(p) + 1, Len(p) + 1) \in {".", "["}
VisitedNow ==
    Visited(inputs_property, ContextParams(request_params), "")
Validated ==
    /\ pc = "prepared"
    /\ inputs_property # NoProperty

\* C12: a required property whose value is absent yields exactly one
\* "Required property" error at that property's path, and nothing below that
\* path is validated: no error lies under it (schema validation enabled, the
\* property reached and not marked invalid).
C12_RequiredAbsent ==
    (Validated /\ ~validation_ctx.disable_schema_validation) =>
        \A i \in 1..Len(VisitedNow) :
            LET n == VisitedNow[i]
                errors == validation_ctx.errors
                here == {j \in 1..Len(errors) : errors[j].path = n.path}
            IN  (~n.property.invalid /\ n.property.required
                     /\ n.value = PyNone) =>
                    /\ Cardinality(here) = 1
                    /\ \A j \in here : errors[j].reason = "Required property"
                    /\ \A j \in 1..Len(errors) : ~Below(n.path, errors[j].path)

C12_Witness ==
    /\ Validated /\ ~validation_ctx.disable_schema_validation
    /\ inputs_property = Profile
    /\ ContextParams(request_params) = PyDict(<<"tags">>, <<PyStr("x")>>)
    /\ Recorded(validation_ctx.errors) =
           <<[path |-> ".tags", reason |-> "Invalid list", custom |-> FALSE],
             [path |-> ".who", reason |-> "Required property",
              custom |-> FALSE]>>

\* C13: validation does not stop at the first fault: with schema validation
\* enabled the recorded errors are exactly the faults of all reached nodes,
\* one per faulty node, in the order of the visit, so k faulty siblings give
\* k errors and a list reports each invalid element at its index path and
\* nothing for the valid ones.
C13_NoShortCircuit ==
    (Validated /\ ~validation_ctx.disable_schema_validation) =>
        Recorded(validation_ctx.errors) = Faults(VisitedNow, FALSE)

C13_Witness ==
    /\ Validated /\ ~validation_ctx.disable_schema_validation
    /\ inputs_property = NumberList
    /\ ContextParams(request_params) = Mixed
    /\ Recorded(validation_ctx.errors) =
           <<[path |-> "[1]", reason |-> "Invalid value type",
              custom |-> FALSE]>>

\* C14: with disable_schema_validation set, the errors that remain are
\* exactly the custom ones of the properties marked invalid; every structural
\* error is dropped, and the context is invalid iff a custom error remains.
C14_OnlyCustomErrors ==
    (Validated /\ validation_ctx.disable_schema_validation) =>
        /\ Recorded(validation_ctx.errors) = Faults(VisitedNow, TRUE)
        /\ \A j \in 1..Len(validation_ctx.errors) :
               validation_ctx.errors[j].custom
        /\ validation_ctx.invalid = (Faults(VisitedNow, TRUE) # << >>)

C14_Witness ==
    /\ Validated /\ validation_ctx.disable_schema_validation
    /\ inputs_property = PartlyBroken
    /\ ContextParams(request_params) = BadSiblings
    /\ Faults(VisitedNow, FALSE) # Faults(VisitedNow, TRUE)
    /\ Recorded(validation_ctx.errors) =
           <<[path |-> ".name", reason |-> "Unknown field",
              custom |-> TRUE]>>
    /\ validation_ctx.invalid

\* C15: when the params are well typed for the schema (no reached node has a
\* fault, no property is marked invalid on the way), building the validation
\* context raises nothing and leaves an empty error list and invalid = FALSE.
C15_WellTypedIsValid ==
    [][(/\ pc = "validate"
        /\ inputs_property # NoProperty
        /\ WellTyped(VisitedNow)) =>
            /\ pc' = "prepared"
            /\ validation_ctx'.exc = ""
            /\ validation_ctx'.errors = << >>
            /\ ~validation_ctx'.invalid]_vars

C15_Witness ==
    /\ Validated
    /\ inputs_property = Profile
    /\ ContextParams(request_params) =
           PyDict(<<"tags", "who">>, <<PyList(<<PyInt(2)>>), Ada>>)
    /\ WellTyped(VisitedNow)
    /\ validation_ctx.errors = << >>
    /\ ~validation_ctx.invalid


\* the run of "ns/say_hello", whose inputs are an object with the one
\* required string field name, on params {} with schema validation enabled
SayHelloEmpty ==
    /\ inputs_property = SayHello
    /\ ContextParams(request_params) = EmptyDict
    /\ validation_ctx # PyNone
    /\ ~validation_ctx.disable_schema_validation

\* C16 as stated: the failure of say_hello on {} names the path "".
C16_EmptyPath ==
    (SayHelloEmpty /\ pc = "done") =>
        /\ validation_ctx.errors[1].path = ""
        /\ outcome = Raised("ExecutionError: Validation error. Path: . "
                                \o "Reason: Required property")

\* C16, amended: say_hello invoked with params {} ends Failed without
\* queueing or executing; the one validation error has reason "Required
\* property" and lies at the path of the missing field, ".name", and the
\* failure message is "Validation error. Path: name. Reason: Required
\* property".
C16_SayHelloEmpty ==
    SayHelloEmpty =>
        /\ validation_ctx.invalid
        /\ Recorded(validation_ctx.errors) =
               <<[path |-> ".name", reason |-> "Required property",
                  custom |-> FALSE]>>
        /\ pc \in {"prepared", "done"}
        /\ pc = "done" =>
               /\ CoordState = "Failed"
               /\ failedAt = "validation"
               /\ outcome = Raised("ExecutionError: Validation error. "
                                       \o "Path: name. "
                                       \o "Reason: Required property")
               /\ executeCalls = 0
               /\ queueCalls = 0

C16_Witness ==
    /\ SayHelloEmpty
    /\ pc = "done"
    /\ CoordState = "Failed"
    /\ outcome = Raised("ExecutionError: Validation error. Path: name. "
                            \o "Reason: Required property")


\* C17: when the operator chose delegation and queue_operation raises, the
\* coordinator is done at once and returns a failed result: error = the
\* captured trace, result null, delegated false, executor = the invocation's
\* Executor; queue_operation was called exactly once and operator.execute
\* not at all.
C17_QueueFailure ==
    queueResult = "queue raises" =>
        /\ delegation = "true"
        /\ pc = "done"
        /\ failedAt = "queue"
        /\ CoordState = "Failed"
        /\ outcome.kind = "returned"
        /\ outcome.value.error
              = PyStr("Traceback (most recent call last): QueueError")
        /\ outcome.value.result = PyNone
        /\ outcome.value.delegated = FALSE
        /\ outcome.value.executor = executor
        /\ executor # PyNone
        /\ queueCalls = 1
        /\ executeCalls = 0

C17_Witness ==
    /\ Finished
    /\ queueResult = "queue raises"
    /\ outcome.value.error # PyNone
    /\ queueCalls = 1
    /\ executeCalls = 0


IsResolver == entry \in {"resolve_type", "resolve_placement"}
\* the error text of the envelope for an exception: resolve_type captures the
\* trace, resolve_placement str(e)
EnvelopeError(exc_type, exc_msg) ==
    IF entry = "resolve_type"
    THEN PyStr("Traceback (most recent call last): " \o exc_type \o ": "
                   \o exc_msg)
    ELSE PyStr(exc_msg)

\* C18: resolve_type and resolve_placement run with a context that has no
\* Executor and never queue or execute the operator; when the operator
\* returns they return its schema / placement, when it raises they return a
\* failure envelope (error set, result null); a trigger or log call made
\* while resolving fails with "No executor available", which ends the call
\* with such an envelope returned, not with an exception.
C18_Resolvers ==
    IsResolver =>
        /\ executor = PyNone
        /\ executeCalls = 0
        /\ queueCalls = 0
        /\ (pc = "done" /\ failedAt = "") =>
               /\ outcome.kind = "returned"
               /\ outcome.value \in SchemaCases
        /\ failedAt = "resolver" =>
               /\ pc = "done"
               /\ outcome.kind = "returned"
               /\ outcome.value.error
                     \in {EnvelopeError("RuntimeError", "failed"),
                          EnvelopeError("ValueError",
                                        "No executor available")}
               /\ outcome.value.result = PyNone
               /\ outcome.value.executor = PyNone
               /\ outcome.value.delegated = FALSE
        /\ lastTrigger.called =>
               /\ lastTrigger.exc = "ValueError: No executor available"
               /\ failedAt = "resolver"
               /\ outcome.value.error
                     = EnvelopeError("ValueError", "No executor available")

C18_Witness ==
    /\ entry = "resolve_type"
    /\ pc = "done"
    /\ lastTrigger.called
    /\ lastTrigger.via = "log"
    /\ outcome.kind = "returned"
    /\ outcome.value.error
          = PyStr("Traceback (most recent call last): "
                      \o "ValueError: No executor available")


\* the objects invocation i created
Own(i) ==
    {conc.inv[i].requests, conc.inv[i].logs, conc.inv[i].secrets,
     conc.inv[i].errors} \ {0}
ExpectedRequests(i) == [k \in 1..conc.inv[i].triggered |-> RequestOf(i, k)]

\* C19: in every interleaving of the invocations, the Executor's lists, the
\* context's secrets map and the ValidationContext's error list of one
\* invocation are objects of its own, distinct from each other and from
\* those of every other invocation; each holds exactly what its invocation
\* wrote, and the executor of a returned result holds exactly the requests
\* its own run triggered, in trigger order.
C19_NoSharedState ==
    /\ \A i, j \in Invocations : i # j => Own(i) \cap Own(j) = {}
    /\ \A i \in Invocations :
          LET inv == conc.inv[i]
          IN  /\ inv.pc # "idle" =>
                    /\ Cardinality({inv.requests, inv.logs, inv.secrets}) = 3
                    /\ 0 \notin {inv.requests, inv.logs, inv.secrets}
                    /\ conc.heap[inv.requests] = ExpectedRequests(i)
                    /\ conc.heap[inv.logs] = << >>
                    /\ conc.heap[inv.secrets]
                          = IF inv.stored THEN <<SecretOf(i)>> ELSE << >>
              /\ inv.errors # 0 =>
                    /\ inv.errors \notin {inv.requests, inv.logs, inv.secrets}
                    /\ conc.heap[inv.errors]
                          = IF inv.invalid THEN <<ErrorOf(i)>> ELSE << >>
              /\ inv.result # 0 =>
                    /\ inv.pc = "done"
                    /\ conc.heap[inv.result] = ExpectedRequests(i)

C19_Witness ==
    /\ conc.inv[1].pc = "done"
    /\ conc.inv[1].result # 0
    /\ conc.inv[2].pc = "run"
    /\ conc.inv[2].requests < conc.inv[1].requests
    /\ conc.inv[2].errors > conc.inv[1].errors
    /\ conc.heap[conc.inv[1].result] = <<RequestOf(1, 1), RequestOf(1, 2)>>
    /\ conc.heap[conc.inv[2].requests] = <<RequestOf(2, 1)>>


\* the positions after operator.resolve_input(ctx) was called
AfterResolveInput ==
    {"validate", "prepared", "resolve_delegation", "queue", "run", "execute"}
\* dict.get(key, None) on the secrets map, read off the map itself
Stored(map, key) ==
    IF \E kv \in map : kv[1] = key
    THEN PyStr((CHOOSE kv \in map : kv[1] = key)[2])
    ELSE PyNone

\* C20: resolve_input is called, and validation and execution start, only
\* once resolve_secret_values is over, after one get_secret call per declared
\* key, in order; while it runs the secrets map changes only by storing the
\* value got for the current key, every key already stored stays, and an
\* empty result stores nothing; ctx.secret(key) returns the stored value or
\* None and changes neither the map nor the progress of the resolution.
C20_SecretsBeforeInput ==
    [][/\ (pc = "secrets" /\ (pc' \in AfterResolveInput
                                \/ inputs_property' # inputs_property)) =>
              /\ SecretsResolved
              /\ keys # PyNone => secretIdx = Len(keys.items) + 1
       /\ pc' \in AfterResolveInput =>
              /\ keys' # PyNone => secretIdx' = Len(keys'.items) + 1
              /\ \A kv \in secrets' :
                     \E i \in 1..Len(keys'.items) : keys'.items[i] = kv[1]
       /\ secretIdx' # secretIdx =>
              /\ pc = "secrets"
              /\ ~SecretsResolved
              /\ secretIdx' = secretIdx + 1
       /\ secrets' # secrets =>
              /\ pc = "secrets"
              /\ ~SecretsResolved
              /\ secretIdx' = secretIdx + 1
              /\ Stored(secrets', keys.items[secretIdx]) # PyNone
              /\ \A kv \in secrets :
                     kv[1] # keys.items[secretIdx] => kv \in secrets'
              /\ \A kv \in secrets' :
                     kv[1] # keys.items[secretIdx] => kv \in secrets
       /\ (lastSecret'.called /\ ~lastSecret.called) =>
              /\ SecretsResolved
              /\ secrets' = secrets
              /\ secretIdx' = secretIdx
              /\ keys' = keys
              /\ lastSecret'.ret = Stored(secrets, lastSecret'.key)]_vars

C20_Witness ==
    /\ pc = "secrets"
    /\ keys # PyNone
    /\ Len(keys.items) = 2
    /\ secretIdx = 3
    /\ secrets = {<<"K2", "value of K2">>}
    /\ lastSecret.called
    /\ lastSecret.key = "K1"
    /\ lastSecret.ret = PyNone


\* the validation of inputs_property against the params is over
ValidationOver ==
    /\ pc \in {"prepared", "done"}
    /\ validation_ctx # PyNone
    /\ inputs_property # NoProperty
\* an Object node that holds a present value which is not keyed
NonKeyed(n) ==
    /\ n.property.type.cls = "Object"
    /\ ~n.property.invalid
    /\ n.value # PyNone
    /\ n.value.t # "dict"

\* C21: for an Object node whose present value is not a keyed structure (a
\* string, a number, a list), validation raises nothing and records exactly
\* one error at that node's path and none below it.
C21_NonKeyedObject ==
    (ValidationOver /\ ~validation_ctx.disable_schema_validation) =>
        \A i \in 1..Len(VisitedNow) :
            LET n == VisitedNow[i]
                errors == validation_ctx.errors
            IN  NonKeyed(n) =>
                    /\ validation_ctx.exc = ""
                    /\ Cardinality({j \in 1..Len(errors) :
                                       errors[j].path = n.path}) = 1
                    /\ \A j \in 1..Len(errors) : ~Below(n.path, errors[j].path)


\* the runtime kind of a value and the kind a primitive type declares
KindOf(value) ==
    CASE value.t = "str" -> "string"
      [] value.t \in {"int", "float"} -> "number"
      [] value.t = "bool" -> "boolean"
      [] OTHER -> value.t
DeclaredKind(type) ==
    CASE type.cls = "String" -> "string"
      [] type.cls = "Number" -> "number"
      [] type.cls = "Boolean" -> "boolean"
      [] OTHER -> ""
\* a reached String, Number or Boolean node that holds a present value
PrimitiveNode(n) ==
    /\ ~n.property.invalid
    /\ n.property.type.cls \in {"String", "Number", "Boolean"}
    /\ n.value # PyNone

\* C22: at every reached String, Number or Boolean node with a present value
\* there is an "Invalid value type" error at the node's path if and only if
\* the kind of the value differs from the declared kind, where integers and
\* floats are the one kind number and booleans are a kind of their own; no
\* other error is recorded at such a node.
C22_PrimitiveKinds ==
    (Validated /\ ~validation_ctx.disable_schema_validation) =>
        \A i \in 1..Len(VisitedNow) :
            LET n == VisitedNow[i]
                errors == validation_ctx.errors
                here == {j \in 1..Len(errors) : errors[j].path = n.path}
            IN  PrimitiveNode(n) =>
                    /\ (here # {}) =
                           (KindOf(n.value) # DeclaredKind(n.property.type))
                    /\ Cardinality(here) <= 1
                    /\ \A j \in here :
                           /\ errors[j].reason = "Invalid value type"
                           /\ ~errors[j].custom

C22_Witness ==
    /\ Validated /\ ~validation_ctx.disable_schema_validation
    /\ inputs_property = Property(Number, FALSE, FALSE, "")
    /\ ContextParams(request_params) = PyBool(TRUE)
    /\ Recorded(validation_ctx.errors) =
           <<[path |-> "", reason |-> "Invalid value type",
              custom |-> FALSE]>>

====
